---- MODULE Spec2Model ----
(***************************************************************************)
(* Model of src/app.py: the Streamlit file-to-Markdown converter.          *)
(*                                                                         *)
(* Python values are modelled as follows.                                  *)
(*   - None / an optional value: <<>> for None, <<v>> for the value v.     *)
(*   - A file name: a sequence of one-character strings.                   *)
(*   - A converted text: a sequence of Unicode code points (integers).     *)
(*   - A message shown to the user: a TLA+ string.                         *)
(*   - A byte count handed to format_size: its base-1024 digits, least     *)
(*     significant first (1024^4 does not fit a TLC integer).              *)
(*   - A float produced by exact arithmetic: a rational.                   *)
(*   - A call that returns or lets an exception escape: a record whose     *)
(*     field "raised" is FALSE when the call returned.                     *)
(***************************************************************************)
EXTENDS Integers, Sequences, FiniteSets, TLC

VARIABLES
    uploaded_files,  \* the batch st.file_uploader returned (app.py:56)
    pc,              \* position of the script in the batch loop
    idx,             \* 1-based index of the loop variable uploaded_file
    temp_path,       \* app.py:69, <<>> for None
    success,         \* app.py:72
    output_text,     \* app.py:72
    fs,              \* temporary files that exist on disk
    results,         \* what the page shows per item, in emission order
    trace,           \* history: the calls made so far, in order
    outcome,         \* history: what the environment did to each item
    arg,             \* argument of the helper exercised by a helper specification
    ret              \* <<>> or <<its return value>>

vars == <<uploaded_files, pc, idx, temp_path, success, output_text, fs,
          results, trace, outcome, arg, ret>>

batchVars == <<uploaded_files, pc, idx, temp_path, success, output_text, fs,
               results, trace, outcome>>

-----------------------------------------------------------------------------
(* Bounds of the model *)

MaxItems == 2
MaxDigits == 6
MaxNameLen == 4
MaxTextLen == 2
MaxBytes == 5

-----------------------------------------------------------------------------
(* format_size, app.py:22-28 *)

Base == 1024

Units == <<"B", "KB", "MB", "GB">>

\* The integer n as base-1024 digits, least significant first.
RECURSIVE ToDigits(_)
ToDigits(n) == IF n = 0 THEN <<>> ELSE <<n % Base>> \o ToDigits(n \div Base)

\* The number n / 1024^shift, n given by its digits.
Scaled(n, shift) == [n |-> n, shift |-> shift]

\* size_in_bytes < 1024.0 : no digit of weight 1024^(shift+1) or more is set.
LessThan1024(v) == \A j \in (v.shift + 2)..Len(v.n) : v.n[j] = 0

\* A forgotten division: the value is left as it was.
Div1024Skipped(v) == v

\* size_in_bytes /= 1024.0
Div1024(v) == [v EXCEPT !.shift = @ + 1]

RECURSIVE format_loop(_, _)
format_loop(v, u) ==
    IF u > Len(Units) THEN [value |-> v, unit |-> "TB"]
    ELSE IF LessThan1024(v) THEN [value |-> v, unit |-> Units[u]]
    ELSE format_loop(Div1024(v), u + 1)

\* The number and the unit that the returned string shows; the rounding of
\* the number to two decimals is not modelled.
format_size(size_in_bytes) == format_loop(Scaled(size_in_bytes, 0), 1)

-----------------------------------------------------------------------------
(* os.path.splitext as save_uploaded_file uses it, app.py:33 *)

Sep == "/"
ExtSep == "."

\* p.rfind(c), 1-based; 0 when c does not occur.
RFind(p, c) ==
    LET hits == {i \in 1..Len(p) : p[i] = c}
    IN IF hits = {} THEN 0 ELSE CHOOSE i \in hits : \A j \in hits : j <= i

\* The loop that skips the leading dots of the last path component.
RECURSIVE splitext_scan(_, _, _)
splitext_scan(p, filenameIndex, dotIndex) ==
    IF filenameIndex >= dotIndex THEN <<p, <<>>>>
    ELSE IF p[filenameIndex] # ExtSep
         THEN <<SubSeq(p, 1, dotIndex - 1), SubSeq(p, dotIndex, Len(p))>>
         ELSE splitext_scan(p, filenameIndex + 1, dotIndex)

\* A split at the last dot with no regard for separators or leading dots.
splitext_naive(p) ==
    LET dotIndex == RFind(p, ExtSep)
    IN IF dotIndex = 0 THEN <<p, <<>>>>
       ELSE <<SubSeq(p, 1, dotIndex - 1), SubSeq(p, dotIndex, Len(p))>>

splitext(p) ==
    LET sepIndex == RFind(p, Sep)
        dotIndex == RFind(p, ExtSep)
    IN IF dotIndex > sepIndex
       THEN splitext_scan(p, sepIndex + 1, dotIndex)
       ELSE <<p, <<>>>>

\* suffix = os.path.splitext(uploaded_file.name)[1]
temp_suffix(name) == splitext(name)[2]

-----------------------------------------------------------------------------
(* Size calculations, app.py:86-97 *)

\* Bytes of one code point in UTF-8.
utf8_len(cp) ==
    IF cp < 128 THEN 1 ELSE IF cp < 2048 THEN 2 ELSE IF cp < 65536 THEN 3 ELSE 4

\* len(output_text.encode('utf-8'))
RECURSIVE encoded_len(_)
encoded_len(text) ==
    IF text = <<>> THEN 0 ELSE utf8_len(Head(text)) + encoded_len(Tail(text))

Rational(num, den) == [num |-> num, den |-> den]

\* The subtraction written the other way round.
reduction_swapped(original_bytes, converted_bytes) ==
    IF original_bytes > 0
    THEN Rational((converted_bytes - original_bytes) * 100, original_bytes)
    ELSE Rational(0, 1)

\* reduction_pct, app.py:94-97
reduction(original_bytes, converted_bytes) ==
    IF original_bytes > 0
    THEN Rational((original_bytes - converted_bytes) * 100, original_bytes)
    ELSE Rational(0, 1)

size_report(original_bytes, text) ==
    LET converted_bytes == encoded_len(text)
    IN [original_bytes  |-> original_bytes,
        converted_bytes |-> converted_bytes,
        original_fmt    |-> format_size(ToDigits(original_bytes)),
        converted_fmt   |-> format_size(ToDigits(converted_bytes)),
        reduction_pct   |-> reduction(original_bytes, converted_bytes)]

-----------------------------------------------------------------------------
(* convert_file, app.py:41-49 *)

NoTextMessage == "The converter returned no text. File might be empty/image-only."

\* What md_engine.convert does on one call.
EngineRaise(args) == [kind |-> "raise", args |-> args, result |-> <<>>]
\* result is <<>> for None, else <<text_content>>, itself <<>> for None or <<text>>
EngineReturn(result) == [kind |-> "return", args |-> <<>>, result |-> result]

RECURSIVE join_repr(_)
join_repr(args) ==
    IF Len(args) = 1 THEN "'" \o args[1] \o "'"
    ELSE "'" \o Head(args) \o "', " \o join_repr(Tail(args))

\* str(e) of an Exception built with the arguments args
str_exc(args) ==
    IF Len(args) = 0 THEN ""
    ELSE IF Len(args) = 1 THEN args[1]
    ELSE "(" \o join_repr(args) \o ")"

\* The engine's message wrapped in a generic one.
convert_file_wrapped(engine) ==
    IF engine.kind = "raise"
    THEN [success |-> FALSE, output_text |-> "Conversion failed: " \o str_exc(engine.args),
          raised |-> FALSE]
    ELSE IF engine.result = <<>> \/ engine.result[1] = <<>>
    THEN [success |-> FALSE, output_text |-> NoTextMessage, raised |-> FALSE]
    ELSE [success |-> TRUE, output_text |-> engine.result[1][1], raised |-> FALSE]

\* engine: the behaviour of md_engine.convert(file_path) on this call
convert_file(engine) ==
    IF engine.kind = "raise"
    THEN [success |-> FALSE, output_text |-> str_exc(engine.args), raised |-> FALSE]
    ELSE IF engine.result = <<>> \/ engine.result[1] = <<>>
    THEN [success |-> FALSE, output_text |-> NoTextMessage, raised |-> FALSE]
    ELSE [success |-> TRUE, output_text |-> engine.result[1][1], raised |-> FALSE]

-----------------------------------------------------------------------------
(* save_uploaded_file, app.py:30-39 *)

\* What the file system does to NamedTemporaryFile(...) and tmp_file.write(...)
IoOutcomes == {"ok", "create_error", "write_error"}

IoMessage(io) ==
    IF io = "create_error" THEN "Permission denied" ELSE "No space left on device"

SaveErrorMessage(e) == "System Error: Could not save file. Details: " \o e

TempFile(id, suffix) == [id |-> id, suffix |-> suffix]

\* The failure reported nowhere.
save_uploaded_file_silent(name, io, id) ==
    LET path == TempFile(id, temp_suffix(name))
    IN IF io = "ok"
       THEN [temp_path |-> <<path>>, created |-> {path}, errors |-> <<>>, raised |-> FALSE]
       ELSE IF io = "write_error"
       THEN [temp_path |-> <<>>, created |-> {path}, errors |-> <<>>, raised |-> FALSE]
       ELSE [temp_path |-> <<>>, created |-> {}, errors |-> <<>>, raised |-> FALSE]

\* name: uploaded_file.name; io: what the file system does; id: the unused
\* name NamedTemporaryFile picks.  created: the file left on disk by the call
\* (delete=False: closing the file on the way out of the with block keeps it).
save_uploaded_file(name, io, id) ==
    LET path == TempFile(id, temp_suffix(name))
    IN IF io = "ok"
       THEN [temp_path |-> <<path>>, created |-> {path}, errors |-> <<>>, raised |-> FALSE]
       ELSE IF io = "write_error"
       THEN [temp_path |-> <<>>, created |-> {path},
             errors |-> <<SaveErrorMessage(IoMessage(io))>>, raised |-> FALSE]
       ELSE [temp_path |-> <<>>, created |-> {},
             errors |-> <<SaveErrorMessage(IoMessage(io))>>, raised |-> FALSE]

-----------------------------------------------------------------------------
(* The temporary file's removal, app.py:74-77 *)

RemoveOutcomes == {"ok", "error"}

\* os.remove outside any try block.
remove_temp_unguarded(path, files, rm) ==
    IF rm = "ok" /\ path # <<>>
    THEN [fs |-> files \ {path[1]}, raised |-> FALSE]
    ELSE [fs |-> files, raised |-> TRUE]

\* try: os.remove(temp_path) / except: pass
remove_temp(path, files, rm) ==
    IF rm = "ok" /\ path # <<>>
    THEN [fs |-> files \ {path[1]}, raised |-> FALSE]
    ELSE [fs |-> files, raised |-> FALSE]

-----------------------------------------------------------------------------
(* Inputs of the batch *)

Names == {<<"a", ".", "t">>, <<".", "b">>}
Sizes == {0, 2}

UploadedFile(name, size) == [name |-> name, size |-> size]
UploadedFiles == {UploadedFile(n, s) : n \in Names, s \in Sizes}
Batches == UNION {[1..k -> UploadedFiles] : k \in 0..MaxItems}

\* "h" followed by the euro sign: 4 bytes in UTF-8
SampleText == <<104, 8364>>

EngineOutcomes ==
    { EngineRaise(<<"corrupt archive">>),
      EngineRaise(<<>>),
      EngineReturn(<<>>),
      EngineReturn(<< <<>> >>),
      EngineReturn(<< << <<>> >> >>),
      EngineReturn(<< <<SampleText>> >>) }

NoOutcome == [io |-> "", engine |-> <<>>, rm |-> "", path |-> <<>>]

\* One call made by the loop: its name, the item it is made for, its argument path.
Call(op, item, path) == [op |-> op, item |-> item, path |-> path]

\* The n-th temporary file created by the run gets the name n.
FreshId == Cardinality({i \in DOMAIN outcome : outcome[i].path # <<>>}) + 1

-----------------------------------------------------------------------------
(* The batch loop, app.py:62-146 *)

\* What the page shows for one item.
ErrorResult(item, name, message) ==
    [item |-> item, name |-> name, state |-> "error", error |-> message,
     text |-> <<>>, report |-> <<>>]
ReadyResult(item, name, text, report) ==
    [item |-> item, name |-> name, state |-> "complete", error |-> "",
     text |-> text, report |-> <<report>>]

\* The for statement: the next item, or the end of the loop.
LoopNext(i) == IF i < Len(uploaded_files) THEN "save" ELSE "done"

\* The converter run on whatever save_uploaded_file returned.
after_save_unchecked(path) == "convert"

\* if temp_path: (app.py:71)
after_save(path) == IF path # <<>> THEN "convert" ELSE "next"

\* The clean-up placed on the success branch only.
after_convert_success_only(ok) == IF ok THEN "remove" ELSE "report"

\* app.py:72-75: the removal follows the conversion, whatever it returned
after_convert(ok) == "remove"

Init ==
    /\ uploaded_files \in Batches
    /\ pc = "start"
    /\ idx = 0
    /\ temp_path = <<>>
    /\ success = FALSE
    /\ output_text = ""
    /\ fs = {}
    /\ results = <<>>
    /\ trace = <<>>
    /\ outcome = [i \in 1..Len(uploaded_files) |-> NoOutcome]
    /\ arg = <<>>
    /\ ret = <<>>

\* if uploaded_files: (app.py:62) and the first iteration of the for statement
Start ==
    /\ pc = "start"
    /\ IF uploaded_files # <<>>
       THEN pc' = "save" /\ idx' = 1
       ELSE pc' = "done" /\ idx' = 1
    /\ UNCHANGED <<uploaded_files, temp_path, success, output_text, fs, results,
                   trace, outcome, arg, ret>>

\* temp_path = save_uploaded_file(uploaded_file); if temp_path: (app.py:69-71)
Save(io) ==
    /\ pc = "save"
    /\ LET file == uploaded_files[idx]
           r == save_uploaded_file(file.name, io, FreshId)
           next == after_save(r.temp_path)
       IN /\ temp_path' = r.temp_path
          /\ fs' = fs \cup r.created
          /\ results' = results \o
                 [k \in 1..Len(r.errors) |-> ErrorResult(idx, file.name, r.errors[k])]
          /\ trace' = Append(trace, Call("save", idx, <<>>))
          /\ outcome' = [outcome EXCEPT ![idx].io = io,
                                        ![idx].path = IF r.created = {} THEN <<>>
                                                      ELSE <<CHOOSE p \in r.created : TRUE>>]
          /\ IF r.raised THEN pc' = "aborted" /\ idx' = idx
             ELSE IF next = "next" THEN pc' = LoopNext(idx) /\ idx' = idx + 1
             ELSE pc' = next /\ idx' = idx
    /\ UNCHANGED <<uploaded_files, success, output_text, arg, ret>>

\* success, output_text = convert_file(temp_path) (app.py:72)
Convert(engine) ==
    /\ pc = "convert"
    /\ LET r == convert_file(engine)
       IN /\ success' = r.success
          /\ output_text' = r.output_text
          /\ pc' = IF r.raised THEN "aborted" ELSE after_convert(r.success)
    /\ trace' = Append(trace, Call("convert", idx, temp_path))
    /\ outcome' = [outcome EXCEPT ![idx].engine = <<engine>>]
    /\ UNCHANGED <<uploaded_files, idx, temp_path, fs, results, arg, ret>>

\* try: os.remove(temp_path) except: pass (app.py:74-77)
Remove(rm) ==
    /\ pc = "remove"
    /\ LET r == remove_temp(temp_path, fs, rm)
       IN /\ fs' = r.fs
          /\ pc' = IF r.raised THEN "aborted" ELSE "report"
    /\ trace' = Append(trace, Call("remove", idx, temp_path))
    /\ outcome' = [outcome EXCEPT ![idx].rm = rm]
    /\ UNCHANGED <<uploaded_files, idx, temp_path, success, output_text, results,
                   arg, ret>>

\* if not success: ... else: ... (app.py:79-146), then the next iteration
Report ==
    /\ pc = "report"
    /\ LET file == uploaded_files[idx]
       IN results' = Append(results,
              IF ~success
              THEN ErrorResult(idx, file.name, output_text)
              ELSE ReadyResult(idx, file.name, output_text,
                               size_report(file.size, output_text)))
    /\ pc' = LoopNext(idx)
    /\ idx' = idx + 1
    /\ UNCHANGED <<uploaded_files, temp_path, success, output_text, fs, trace,
                   outcome, arg, ret>>

Next ==
    \/ Start
    \/ \E io \in IoOutcomes : Save(io)
    \/ \E engine \in EngineOutcomes : Convert(engine)
    \/ \E rm \in RemoveOutcomes : Remove(rm)
    \/ Report

Spec == Init /\ [][Next]_vars

-----------------------------------------------------------------------------
(* Helper specifications: one helper applied to every input of a bounded set *)

HelperIdle(label) ==
    /\ uploaded_files = <<>>
    /\ pc = label
    /\ idx = 0
    /\ temp_path = <<>>
    /\ success = FALSE
    /\ output_text = ""
    /\ fs = {}
    /\ results = <<>>
    /\ trace = <<>>
    /\ outcome = <<>>
    /\ ret = <<>>

SeqsUpTo(S, n) == UNION {[1..k -> S] : k \in 0..n}

\* Byte counts: digits of a non-negative integer, the top digit not zero.
DigitValues == {0, 1, 1023}
ByteCounts == {n \in SeqsUpTo(DigitValues, MaxDigits) : n = <<>> \/ n[Len(n)] # 0}

InitFormat == HelperIdle("format_size") /\ arg \in ByteCounts

FormatSizeCall ==
    /\ pc = "format_size"
    /\ ret = <<>>
    /\ ret' = <<format_size(arg)>>
    /\ UNCHANGED <<batchVars, arg>>

SpecFormat == InitFormat /\ [][FormatSizeCall]_vars

NameChars == {"a", ".", "/"}

InitSuffix == HelperIdle("suffix") /\ arg \in SeqsUpTo(NameChars, MaxNameLen)

SuffixCall ==
    /\ pc = "suffix"
    /\ ret = <<>>
    /\ ret' = <<temp_suffix(arg)>>
    /\ UNCHANGED <<batchVars, arg>>

SpecSuffix == InitSuffix /\ [][SuffixCall]_vars

\* "h", e acute, the euro sign, an emoji: 1, 2, 3 and 4 bytes in UTF-8
CodePoints == {104, 233, 8364, 128512}

InitSizes ==
    /\ HelperIdle("sizes")
    /\ arg \in [original_bytes : 0..MaxBytes, text : SeqsUpTo(CodePoints, MaxTextLen)]

SizesCall ==
    /\ pc = "sizes"
    /\ ret = <<>>
    /\ ret' = <<size_report(arg.original_bytes, arg.text)>>
    /\ UNCHANGED <<batchVars, arg>>

SpecSizes == InitSizes /\ [][SizesCall]_vars

-----------------------------------------------------------------------------
(* Vocabulary of the properties *)

NumItems == Len(uploaded_files)
InLoop == pc \in {"save", "convert", "remove", "report"}

\* Item i has been fully processed.
Finished(i) == pc = "done" \/ (InLoop /\ i < idx)

StagingFailed(i) == outcome[i].io \in {"create_error", "write_error"}
Staged(i) == outcome[i].io = "ok"

\* Positions of the calls op made for item i.
Calls(op, i) == {k \in 1..Len(trace) : trace[k].op = op /\ trace[k].item = i}

\* Positions of the results shown for item i.
ResultsOf(i) == {k \in 1..Len(results) : results[k].item = i}

EngineOf(i) == outcome[i].engine[1]

\* The engine returned a text for item i.
ReturnedText(e) == e.kind = "return" /\ e.result # <<>> /\ e.result[1] # <<>>

\* Item i can be staged and converted.
Convertible(i) ==
    /\ Staged(i)
    /\ outcome[i].engine # <<>>
    /\ ReturnedText(EngineOf(i))

ItemFailed(i) ==
    \/ StagingFailed(i)
    \/ outcome[i].engine # <<>> /\ ~ReturnedText(EngineOf(i))
    \/ outcome[i].rm = "error"

-----------------------------------------------------------------------------
(* C1: failure isolation.  No failure of an item (staging failure, engine
   exception, engine returning no text, failed removal of the temporary file)
   stops the script: it never aborts, it can always take its next step until
   the loop is over, the loop is over only after every item was processed, and
   every finished item that was staged and for which the engine returned a text
   shows a Success result with that text. *)
C1_FailureIsolation ==
    /\ pc # "aborted"
    /\ pc # "done" => ENABLED Next
    /\ pc = "done" => idx = NumItems + 1
    /\ \A i \in 1..NumItems :
          Finished(i) =>
             /\ outcome[i].io # ""
             /\ Convertible(i) =>
                   \E k \in ResultsOf(i) :
                      /\ results[k].state = "complete"
                      /\ results[k].text = EngineOf(i).result[1][1]

\* The first item was converted but the removal of its file failed; the
\* second item is converted all the same.
C1_Witness ==
    /\ pc = "done"
    /\ NumItems = 2
    /\ ItemFailed(1)
    /\ outcome[1].rm = "error"
    /\ Convertible(2)
    /\ results[2].state = "complete"

(* C2: when the loop has finished, exactly one result per input item has been
   shown, in the order of the items; while the loop runs, one result has been
   shown for each item before the current one. *)
C2_OneResultPerItemInOrder ==
    /\ InLoop => Len(results) = idx - 1
    /\ pc = "done" => Len(results) = NumItems
    /\ \A k \in 1..Len(results) :
          /\ results[k].item = k
          /\ results[k].name = uploaded_files[k].name
          /\ results[k].state \in {"error", "complete"}

C2_Witness ==
    /\ pc = "done"
    /\ Len(results) = 2
    /\ StagingFailed(1)
    /\ results[1].state = "error"
    /\ results[2].state = "complete"
    /\ results[1].name # results[2].name

(* C3: for every staged item the engine is called at most once, on the staged
   path, and the removal of that path is attempted at most once and only after
   the conversion call; once the item is past the removal step both calls have
   been made exactly once, whatever the conversion returned. *)
C3_ConvertOnceThenRemoveOnce ==
    \A i \in 1..NumItems :
       Staged(i) =>
          /\ Cardinality(Calls("convert", i)) <= 1
          /\ Cardinality(Calls("remove", i)) <= 1
          /\ \A k \in Calls("convert", i) \cup Calls("remove", i) :
                trace[k].path # <<>> /\ trace[k].path = outcome[i].path
          /\ \A r \in Calls("remove", i) : \E c \in Calls("convert", i) : c < r
          /\ (Finished(i) \/ (idx = i /\ pc = "report")) =>
                /\ Cardinality(Calls("convert", i)) = 1
                /\ Cardinality(Calls("remove", i)) = 1
          /\ (idx = i /\ pc = "remove") =>
                /\ Cardinality(Calls("convert", i)) = 1
                /\ Calls("remove", i) = {}

\* A finished batch with one conversion that succeeded and one that failed,
\* each followed by its removal.
C3_Witness ==
    /\ pc = "done"
    /\ NumItems = 2
    /\ Staged(1) /\ results[1].state = "complete"
    /\ Staged(2) /\ results[2].state = "error"
    /\ Cardinality(Calls("remove", 1)) = 1
    /\ Cardinality(Calls("remove", 2)) = 1

(* C4: an item whose staging failed shows one Failure result, neither the
   conversion nor the removal is called for it, and the loop has moved past
   it. *)
C4_StagingFailureSkips ==
    \A i \in 1..NumItems :
       StagingFailed(i) =>
          /\ Calls("convert", i) = {}
          /\ Calls("remove", i) = {}
          /\ idx > i
          /\ pc \in {"save", "convert", "remove", "report", "done"}
          /\ Cardinality(ResultsOf(i)) = 1
          /\ \A k \in ResultsOf(i) : results[k].state = "error"

\* Item 1 failed in staging (the write raised) and the loop is at item 2.
C4_Witness ==
    /\ NumItems = 2
    /\ outcome[1].io = "write_error"
    /\ pc = "save"
    /\ idx = 2

(* C5: when the engine raises an error carrying the single message m,
   convert_file returns a Failure whose message is exactly m. *)
C5_EngineMessageVerbatim ==
    (/\ pc = "remove"
     /\ outcome[idx].engine # <<>>
     /\ EngineOf(idx).kind = "raise"
     /\ Len(EngineOf(idx).args) = 1)
    => /\ success = FALSE
       /\ output_text = EngineOf(idx).args[1]

C5_Witness ==
    /\ pc = "remove"
    /\ EngineOf(idx) = EngineRaise(<<"corrupt archive">>)
    /\ ~success
    /\ output_text = "corrupt archive"

(* C6 as claimed: an engine call that completes without text (result absent,
   text absent or text empty) gives a Failure with the message "The converter
   returned no text. The file might be empty or image-only.", and convert_file
   never returns Success with empty text. *)
C6_Claimed ==
    (/\ pc = "remove"
     /\ outcome[idx].engine # <<>>
     /\ EngineOf(idx).kind = "return")
    => /\ (~ReturnedText(EngineOf(idx)) \/ EngineOf(idx).result[1][1] = <<>>)
            => /\ success = FALSE
               /\ output_text =
                    "The converter returned no text. The file might be empty or image-only."
       /\ success => output_text # <<>>

(* C10 as claimed: at most one temporary file of the run exists at any time, it
   is the one of the item being processed, at the end every file left is one
   whose removal failed, and a staging that fails in the write leaves no
   file. *)
C10_TempFileLifecycle ==
    /\ Cardinality(fs) <= 1
    /\ \A p \in fs : pc \in {"convert", "remove"} /\ temp_path = <<p>>
    /\ pc = "done" =>
          \A p \in fs : \E i \in 1..NumItems :
             outcome[i].path = <<p>> /\ outcome[i].rm = "error"
    /\ \A i \in 1..NumItems :
          outcome[i].io = "write_error" =>
             (outcome[i].path = <<>> \/ outcome[i].path[1] \notin fs)

-----------------------------------------------------------------------------
(* Properties of the helpers *)

\* Number of base-1024 digits of n: n < 1024^k exactly when Magnitude(n) <= k.
Magnitude(n) ==
    LET set == {j \in 1..Len(n) : n[j] # 0}
    IN IF set = {} THEN 0 ELSE CHOOSE j \in set : \A k \in set : k <= j

\* The unit the claim gives to n, and the number of divisions by 1024 it stands for.
ClaimedUnit(n) ==
    IF Magnitude(n) <= 1 THEN "B"
    ELSE IF Magnitude(n) = 2 THEN "KB"
    ELSE IF Magnitude(n) = 3 THEN "MB"
    ELSE IF Magnitude(n) = 4 THEN "GB"
    ELSE "TB"

UnitSteps(unit) ==
    IF unit = "B" THEN 0
    ELSE IF unit = "KB" THEN 1
    ELSE IF unit = "MB" THEN 2
    ELSE IF unit = "GB" THEN 3
    ELSE 4

(* C7: format_size(n) shows B for n < 1024, KB for 1024 <= n < 1024^2, MB for
   1024^2 <= n < 1024^3, GB for 1024^3 <= n < 1024^4 and TB for every larger n,
   and the number shown is n divided by 1024 once per unit step. *)
C7_FormatSizeUnits ==
    (pc = "format_size" /\ ret # <<>>)
    => /\ ret[1].unit = ClaimedUnit(arg)
       /\ ret[1].value = Scaled(arg, UnitSteps(ClaimedUnit(arg)))

\* format_size applied to a count of at least 1024^5 bytes, shown in TB.
C7_Witness ==
    /\ pc = "format_size"
    /\ ret # <<>>
    /\ Magnitude(arg) = 6
    /\ ret[1].unit = "TB"
    /\ ret[1].value.shift = 4

(* C8: reduction_pct is 0, with no division made, when original_bytes = 0;
   otherwise it equals (original_bytes - converted_bytes) / original_bytes *
   100, which is negative exactly when converted_bytes > original_bytes. *)
C8_ReductionPct ==
    (pc = "sizes" /\ ret # <<>>)
    => LET o == ret[1].original_bytes
           c == ret[1].converted_bytes
           r == ret[1].reduction_pct
       IN /\ o = arg.original_bytes
          /\ o = 0 => r = Rational(0, 1)
          /\ o # 0 =>
                /\ r.den > 0
                /\ r.num * o = (o - c) * 100 * r.den
                /\ (r.num < 0) <=> (c > o)

\* A text larger than the original: a negative reduction is returned.
C8_Witness ==
    /\ pc = "sizes"
    /\ ret # <<>>
    /\ ret[1].original_bytes = 2
    /\ ret[1].converted_bytes = 7
    /\ ret[1].reduction_pct = Rational(-500, 2)

LastDot(name) == RFind(name, ".")
LastSep(name) == RFind(name, "/")

(* C9 as claimed: the suffix of the temporary file is the part of the name from
   its last '.' on, and is empty when the name has no '.'. *)
C9_Claimed ==
    (pc = "suffix" /\ ret # <<>>)
    => ret[1] = IF LastDot(arg) = 0 THEN <<>>
                ELSE SubSeq(arg, LastDot(arg), Len(arg))

(* C9 amended: the suffix is the part of the name from its last '.' on when
   that dot comes after the last path separator and some character other than
   '.' stands between that separator (or the start of the name) and the dot;
   in every other case the suffix is empty. *)
C9_SuffixOfLastComponent ==
    (pc = "suffix" /\ ret # <<>>)
    => ret[1] = IF /\ LastDot(arg) > LastSep(arg)
                   /\ \E j \in (LastSep(arg) + 1)..(LastDot(arg) - 1) : arg[j] # "."
                THEN SubSeq(arg, LastDot(arg), Len(arg))
                ELSE <<>>

\* A name whose only dot is its first character gets the empty suffix.
C9_Witness ==
    /\ pc = "suffix"
    /\ ret # <<>>
    /\ arg = <<".", "a">>
    /\ ret[1] = <<>>

====
